---------------------------- MODULE Spec2Model ----------------------------
(***************************************************************************)
(* nursepy.preproc: one call of preproc(X_train, X_test, auto, OHE,        *)
(* standard_scale, robust_scale, numerical_impute, categorical_impute,     *)
(* label_encode), followed statement by statement.                         *)
(*                                                                         *)
(* Data frames are column-major: a frame has a sequence of column names, a *)
(* sequence of dtypes and a sequence of value columns.  A cell is a record *)
(* [k, s, a, b, c]: a string s (k = "str"), a missing value (k = "nan") or *)
(* the exact number a / (b * sqrt(c)) (k = "num"), kept in lowest terms so *)
(* that equal numbers are equal records.  Floating point rounding is not   *)
(* modelled.                                                               *)
(***************************************************************************)
EXTENDS Integers, Sequences, FiniteSets, TLC

(***************************************************************************)
(* Bounds of the explored inputs.                                          *)
(***************************************************************************)
MaxRows == 3
MaxCat == 3
MaxNum == 2

(***************************************************************************)
(* Cells.                                                                  *)
(***************************************************************************)
RECURSIVE GCD(_, _)
GCD(x, y) == IF y = 0 THEN x ELSE GCD(y, x % y)

Abs(x) == IF x < 0 THEN -x ELSE x

\* The largest r with r*r dividing n (n > 0).
SquarePart(n) ==
    CHOOSE r \in 1..n : /\ n % (r * r) = 0
                        /\ \A q \in (r + 1)..n : n % (q * q) # 0

Str(s) == [k |-> "str", s |-> s, a |-> 0, b |-> 1, c |-> 1]
Num(n) == [k |-> "num", s |-> "", a |-> n, b |-> 1, c |-> 1]
NaN == [k |-> "nan", s |-> "", a |-> 0, b |-> 1, c |-> 1]
NoCat == [k |-> "none", s |-> "", a |-> 0, b |-> 1, c |-> 1]

\* The number a / (b * sqrt(c)), b # 0, c > 0, in lowest terms.
Quot(a, b, c) ==
    IF a = 0 THEN Num(0)
    ELSE LET r == SquarePart(c)
             bb == Abs(b) * r
             aa == IF b < 0 THEN -a ELSE a
             g == GCD(Abs(aa), bb)
         IN  [k |-> "num", s |-> "", a |-> aa \div g, b |-> bb \div g,
              c |-> c \div (r * r)]

IsNaN(v) == v.k = "nan"
IsStr(v) == v.k = "str"

\* Strings in Python's order (code points: upper case before lower case).
Alphabet == <<"A", "B", "C", "D", "F", "missing">>
Rank(s) == CHOOSE i \in 1..Len(Alphabet) : Alphabet[i] = s

\* Sort key of a cell that is a string or a whole number.
Key(v) == IF IsStr(v) THEN Rank(v.s) ELSE v.a

RECURSIVE SortSet(_)
SortSet(S) ==
    IF S = {} THEN <<>>
    ELSE LET m == CHOOSE x \in S : \A y \in S : Key(x) <= Key(y)
         IN  <<m>> \o SortSet(S \ {m})

Range(q) == {q[i] : i \in 1..Len(q)}

RECURSIVE Concat(_)
Concat(qs) == IF qs = <<>> THEN <<>> ELSE Head(qs) \o Concat(Tail(qs))

IndexOf(q, x) == CHOOSE i \in 1..Len(q) : q[i] = x

RECURSIVE Sum(_)
Sum(q) == IF q = <<>> THEN 0 ELSE Head(q) + Sum(Tail(q))

\* The whole numbers of a column that are not missing, in ascending order.
RECURSIVE SortInts(_)
SortInts(q) ==
    IF q = <<>> THEN <<>>
    ELSE LET i == CHOOSE j \in 1..Len(q) : \A l \in 1..Len(q) : q[j] <= q[l]
         IN  <<q[i]>> \o SortInts([j \in 1..(Len(q) - 1) |->
                                     IF j < i THEN q[j] ELSE q[j + 1]])

NotNaN(v) == v.k # "nan"
Present(col) ==
    LET p == SelectSeq(col, NotNaN)
    IN  SortInts([i \in 1..Len(p) |-> p[i].a])

(***************************************************************************)
(* Data frames.                                                            *)
(***************************************************************************)
\* A column label: a plain input column, or the one-hot feature name that
\* get_feature_names builds from a source column and a category.
PlainName(c) == [col |-> c, cat |-> NoCat]
FeatureName(c, v) == [col |-> c, cat |-> v]

NumericDtypes == {"float64", "float32", "int64"}

HasColumn(X, c) == PlainName(c) \in Range(X.columns)
ColIndex(X, c) == IndexOf(X.columns, PlainName(c))
Col(X, c) == X.values[ColIndex(X, c)]
Dtype(X, c) == X.dtypes[ColIndex(X, c)]
NRows(X) == Len(X.values[1])

\* X[columns]: the selected value columns, in the order of the selection.
Select(X, columns) == [i \in 1..Len(columns) |-> Col(X, columns[i])]

\* DataFrame.select_dtypes(include=...).columns.values
SelectDtypes(X, include) ==
    LET idx == SortSet({Num(i) : i \in {j \in 1..Len(X.columns) :
                                          X.dtypes[j] \in include}})
    IN  [i \in 1..Len(idx) |-> X.columns[idx[i].a].col]

\* pd.DataFrame(data=..., columns=...) of a dense array: one name per column.
FrameShapeOK(data, names) == Len(data) = Len(names)
NewFrame(data, names) ==
    [columns |-> names,
     dtypes |-> [i \in 1..Len(names) |->
                   IF \E j \in 1..Len(data) : \E r \in 1..Len(data[j]) :
                        IsStr(data[j][r])
                   THEN "object" ELSE "float64"],
     values |-> data]

(***************************************************************************)
(* The fitted steps of the ColumnTransformer.                              *)
(***************************************************************************)
\* SimpleImputer(strategy='constant', fill_value='missing')
CatImpute(col) ==
    [i \in 1..Len(col) |-> IF IsNaN(col[i]) THEN Str("missing") ELSE col[i]]

\* Twice the median of the values that are present (np.nanmedian).
Median2(col) ==
    LET p == Present(col)
        n == Len(p)
    IN  IF n % 2 = 1 THEN 2 * p[(n + 1) \div 2]
        ELSE p[n \div 2] + p[n \div 2 + 1]

\* SimpleImputer(strategy='median')
NumImpute(med2, col) ==
    [i \in 1..Len(col) |-> IF IsNaN(col[i]) THEN Quot(med2, 2, 1) ELSE col[i]]

\* StandardScaler: count, sum and sum of squares of the present values.
StdFit(col) ==
    LET p == Present(col)
    IN  [n |-> Len(p), s |-> Sum(p), q |-> Sum([i \in 1..Len(p) |-> p[i] * p[i]])]

\* (x - mean) / scale, scale = sqrt(var), a zero scale replaced by 1.
StdScale(st, col) ==
    LET v == st.n * st.q - st.s * st.s
    IN  [i \in 1..Len(col) |->
           IF IsNaN(col[i]) THEN NaN
           ELSE IF v = 0 THEN Quot(st.n * col[i].a - st.s, st.n, 1)
           ELSE Quot(st.n * col[i].a - st.s, 1, v)]

\* Four times the p-th quartile (p = 1, 3), linear interpolation
\* (np.nanpercentile).
Quartile4(sorted, p) ==
    LET pos == p * (Len(sorted) - 1)
        i == pos \div 4 + 1
        r == pos % 4
    IN  IF r = 0 THEN 4 * sorted[i]
        ELSE 4 * sorted[i] + r * (sorted[i + 1] - sorted[i])

\* RobustScaler: center = median, scale = interquartile range.
RobustFit(col) ==
    LET p == Present(col)
    IN  [med2 |-> Median2(col), iqr4 |-> Quartile4(p, 3) - Quartile4(p, 1)]

\* (x - center) / scale, a zero scale replaced by 1.
RobustScale(st, col) ==
    [i \in 1..Len(col) |->
       IF IsNaN(col[i]) THEN NaN
       ELSE IF st.iqr4 = 0 THEN Quot(2 * col[i].a - st.med2, 2, 1)
       ELSE Quot(4 * col[i].a - 2 * st.med2, st.iqr4, 1)]

\* OneHotEncoder.categories_ of one column: the sorted distinct values.
Categories(col) == SortSet(Range(col))

\* The categories that get an indicator column: all of them, or all but the
\* first with drop='first'.
RetainedAll(drop, cats) == cats
Retained(drop, cats) == IF drop THEN Tail(cats) ELSE cats

\* The indicator columns of one source column.
OneHot(cats, col) ==
    [j \in 1..Len(cats) |->
       [i \in 1..Len(col) |-> IF col[i] = cats[j] THEN Num(1) ELSE Num(0)]]

(***************************************************************************)
(* ColumnTransformer with remainder='passthrough'.  The steps are, in      *)
(* order, cat_imputer, num_imputer, one_hot, standard_scalar and           *)
(* robust_scalar; a step with an empty column list is skipped.             *)
(***************************************************************************)
NoTransformer ==
    [state |-> "none", drop |-> FALSE,
     cat_imputer |-> <<>>, num_imputer |-> <<>>, one_hot |-> <<>>,
     standard_scalar |-> <<>>, robust_scalar |-> <<>>,
     medians |-> <<>>, categories |-> <<>>, std |-> <<>>, robust |-> <<>>,
     remainder |-> <<>>, sparse_output |-> FALSE]

ColumnTransformer(drop, ci, ni, ohe, ss, rs) ==
    [NoTransformer EXCEPT !.state = "built", !.drop = drop,
                          !.cat_imputer = ci, !.num_imputer = ni,
                          !.one_hot = ohe, !.standard_scalar = ss,
                          !.robust_scalar = rs]

Claimed(t) ==
    Range(t.cat_imputer) \cup Range(t.num_imputer) \cup Range(t.one_hot)
        \cup Range(t.standard_scalar) \cup Range(t.robust_scalar)

\* The columns no step names, in the order of the frame.
Remainder(t, X) ==
    LET names == [i \in 1..Len(X.columns) |-> X.columns[i].col]
        Free(c) == c \notin Claimed(t)
    IN  SelectSeq(names, Free)

\* Width of the dense blocks and of the one-hot block of the output.
DenseWidth(t, X) ==
    Len(t.cat_imputer) + Len(t.num_imputer) + Len(t.standard_scalar)
        + Len(t.robust_scalar) + Len(Remainder(t, X))
OneHotWidth(t, X) ==
    Sum([i \in 1..Len(t.one_hot) |->
           Len(Retained(t.drop, Categories(Col(X, t.one_hot[i]))))])

\* Stored entries: every cell of a dense block, the ones of the one-hot block.
StoredEntries(t, X) ==
    NRows(X) * DenseWidth(t, X)
        + Sum([i \in 1..Len(t.one_hot) |->
                 LET col == Col(X, t.one_hot[i])
                     kept == Range(Retained(t.drop, Categories(col)))
                 IN  Cardinality({r \in 1..Len(col) : col[r] \in kept})])
TotalEntries(t, X) == NRows(X) * (DenseWidth(t, X) + OneHotWidth(t, X))

\* The stacked output stays sparse when a step returned a sparse block and
\* the density is below sparse_threshold = 0.3.
SparseOutput(t, X) ==
    /\ t.one_hot # <<>>
    /\ 10 * StoredEntries(t, X) < 3 * TotalEntries(t, X)

HoldsStrings(X, columns) ==
    \E c \in Range(columns) : Dtype(X, c) \notin NumericDtypes

\* fit raises: the constant imputer with a string fill value on numeric data,
\* the median imputer or a scaler on strings, a density of 0 / 0, or a sparse
\* stack with string columns.
FitFails(t, X) ==
    \/ /\ t.cat_imputer # <<>>
       /\ ~HoldsStrings(X, t.cat_imputer)
    \/ HoldsStrings(X, t.num_imputer)
    \/ HoldsStrings(X, t.standard_scalar)
    \/ HoldsStrings(X, t.robust_scalar)
    \/ /\ t.one_hot # <<>>
       /\ TotalEntries(t, X) = 0
    \/ /\ SparseOutput(t, X)
       /\ \/ HoldsStrings(X, t.cat_imputer)
          \/ HoldsStrings(X, Remainder(t, X))

Fit(t, X) ==
    [t EXCEPT
       !.state = "fitted",
       !.medians = [i \in 1..Len(t.num_imputer) |->
                      Median2(Col(X, t.num_imputer[i]))],
       !.categories = [i \in 1..Len(t.one_hot) |->
                         Categories(Col(X, t.one_hot[i]))],
       !.std = [i \in 1..Len(t.standard_scalar) |->
                  StdFit(Col(X, t.standard_scalar[i]))],
       !.robust = [i \in 1..Len(t.robust_scalar) |->
                     RobustFit(Col(X, t.robust_scalar[i]))],
       !.remainder = Remainder(t, X),
       !.sparse_output = SparseOutput(t, X)]

\* transform raises on a category the encoder has not seen
\* (handle_unknown='error').
TransformFails(t, X) ==
    \E i \in 1..Len(t.one_hot) :
        \E v \in Range(Col(X, t.one_hot[i])) : v \notin Range(t.categories[i])

\* The output columns: the blocks of the steps in their order, then the
\* remainder.
Transform(t, X) ==
    Concat(<<
      [i \in 1..Len(t.cat_imputer) |-> CatImpute(Col(X, t.cat_imputer[i]))],
      [i \in 1..Len(t.num_imputer) |->
         NumImpute(t.medians[i], Col(X, t.num_imputer[i]))],
      Concat([i \in 1..Len(t.one_hot) |->
                OneHot(Retained(t.drop, t.categories[i]),
                       Col(X, t.one_hot[i]))]),
      [i \in 1..Len(t.standard_scalar) |->
         StdScale(t.std[i], Col(X, t.standard_scalar[i]))],
      [i \in 1..Len(t.robust_scalar) |->
         RobustScale(t.robust[i], Col(X, t.robust_scalar[i]))],
      Select(X, t.remainder) >>)

\* named_transformers_.one_hot.get_feature_names(input_features)
GetFeatureNames(t, input_features) ==
    Concat([i \in 1..Len(t.categories) |->
              LET kept == Retained(t.drop, t.categories[i])
              IN  [j \in 1..Len(kept) |->
                     FeatureName(input_features[i], kept[j])]])

(***************************************************************************)
(* LabelEncoder.                                                           *)
(***************************************************************************)
\* fit: classes_ are the distinct values, sorted.
LeFitDropLast(y) ==
    LET sorted == SortSet(Range(y))
    IN  SubSeq(sorted, 1, Len(sorted) - 1)
LeFit(y) == SortSet(Range(y))

\* transform raises on a value that is not among classes_.
LeUnseen(classes, col) == \E i \in 1..Len(col) : col[i] \notin Range(classes)

\* transform: the zero-based position of each value in classes_.
LeTransform(classes, col) ==
    [i \in 1..Len(col) |-> Num(IndexOf(classes, col[i]) - 1)]

\* X[column] = values: overwrite the column, or append it when it is new.
SetCol(X, column, vals) ==
    IF HasColumn(X, column)
    THEN [X EXCEPT !.values[ColIndex(X, column)] = vals,
                   !.dtypes[ColIndex(X, column)] = "int64"]
    ELSE [columns |-> Append(X.columns, PlainName(column)),
          dtypes |-> Append(X.dtypes, "int64"),
          values |-> Append(X.values, vals)]

(***************************************************************************)
(* The state of one call.                                                  *)
(*   heap       the data frame objects: the caller's two tables, the       *)
(*              copies of lines 61-63 and the frames of lines 148-153      *)
(*   args       locals().copy() of line 42: the arguments as passed        *)
(*              (tables by reference)                                      *)
(*   argTypes   type(args[k]) for every argument k                         *)
(*   X_train, X_test, OHE, standard_scale                                  *)
(*              the local names the body rebinds (tables by reference)     *)
(*   transformer, column_names, ohe_columns                                *)
(*              the locals of lines 84-147                                 *)
(*   le_i       position of the loop of line 156 in label_encode.keys()    *)
(*   pc         the statement to run next, "done" or "failed"              *)
(*   err, errArg  the exception raised and the argument it names           *)
(*   ret        the returned pair of references, <<>> while none           *)
(***************************************************************************)
VARIABLES heap, args, argTypes, X_train, X_test, OHE, standard_scale,
          transformer, column_names, ohe_columns, le_i, pc, err, errArg, ret

vars == <<heap, args, argTypes, X_train, X_test, OHE, standard_scale,
          transformer, column_names, ohe_columns, le_i, pc, err, errArg, ret>>

FrameIds == {"caller_train", "caller_test", "copy_train", "copy_test",
             "out_train", "out_test"}
NoFrame == [columns |-> <<>>, dtypes |-> <<>>, values |-> <<>>]

\* locals().keys() at line 42: the parameters in declaration order.
ArgKeysReversed ==
    <<"label_encode", "categorical_impute", "numerical_impute",
      "robust_scale", "standard_scale", "OHE", "auto", "X_test", "X_train">>
ArgKeys ==
    <<"X_train", "X_test", "auto", "OHE", "standard_scale", "robust_scale",
      "numerical_impute", "categorical_impute", "label_encode">>

\* arg_types, lines 43-53.
arg_types ==
    [X_train |-> {"DataFrame"},
     X_test |-> {"NoneType", "DataFrame"},
     auto |-> {"bool"},
     OHE |-> {"list", "ndarray"},
     standard_scale |-> {"list", "ndarray"},
     robust_scale |-> {"list", "ndarray"},
     numerical_impute |-> {"list", "ndarray"},
     categorical_impute |-> {"list", "ndarray"},
     label_encode |-> {"dict"}]

\* The first argument, in the order of the loop of line 55, whose type is
\* not permitted; "" when there is none.
FirstBadArg(keys, types) ==
    LET bad == {i \in 1..Len(keys) : types[keys[i]] \notin arg_types[keys[i]]}
    IN  IF bad = {} THEN ""
        ELSE keys[CHOOSE i \in bad : \A j \in bad : i <= j]

\* Lines 66-78: a manual setting is given together with auto.
AutoConflictListsOnly(a) ==
    \E element \in {a.OHE, a.standard_scale, a.robust_scale,
                    a.numerical_impute, a.categorical_impute} :
        Len(element) > 0
AutoConflict(a) ==
    \/ \E element \in {a.OHE, a.standard_scale, a.robust_scale,
                       a.numerical_impute, a.categorical_impute} :
           Len(element) > 0
    \/ Len(a.label_encode) > 0

\* Line 145 and 147: the feature names, then the columns that are not in OHE.
NamesKeepingOHE(ohe, ohe_cols, names) == ohe_cols \o names
ReconciledNames(ohe, ohe_cols, names) ==
    LET Kept(x) == x.col \notin Range(ohe)
    IN  ohe_cols \o SelectSeq(names, Kept)

\* The frame that X_train[column] = ... and X_test[column] = ... write to:
\* the one the local name is bound to, not the caller's argument.
LabelTargetArg(local, arg) == arg
LabelTarget(local, arg) == local

Fail(kind, arg) ==
    /\ pc' = "failed"
    /\ err' = kind
    /\ errArg' = arg

\* Lines 55-59.
CheckArgTypes ==
    /\ pc = "check_types"
    /\ LET bad == FirstBadArg(ArgKeys, argTypes)
       IN  IF bad # "" THEN Fail("TypeMismatch", bad)
           ELSE /\ pc' = "copy"
                /\ UNCHANGED <<err, errArg>>
    /\ UNCHANGED <<heap, args, argTypes, X_train, X_test, OHE, standard_scale,
                   transformer, column_names, ohe_columns, le_i, ret>>

\* Lines 61-63.
CopyTables ==
    /\ pc = "copy"
    /\ X_train' = "copy_train"
    /\ IF X_test # "None"
       THEN /\ X_test' = "copy_test"
            /\ heap' = [heap EXCEPT !["copy_train"] = heap[X_train],
                                    !["copy_test"] = heap[X_test]]
       ELSE /\ X_test' = X_test
            /\ heap' = [heap EXCEPT !["copy_train"] = heap[X_train]]
    /\ pc' = "configure"
    /\ UNCHANGED <<args, argTypes, OHE, standard_scale, transformer,
                   column_names, ohe_columns, le_i, err, errArg, ret>>

\* Lines 65-134.
Configure ==
    /\ pc = "configure"
    /\ IF args.auto
       THEN IF AutoConflict(args)
            THEN /\ Fail("ConfigConflict", "")
                 /\ UNCHANGED <<OHE, standard_scale, transformer>>
            ELSE /\ standard_scale' =
                        SelectDtypes(heap[X_train], {"float64", "int64"})
                 /\ OHE' = SelectDtypes(heap[X_train],
                                        {"object", "bool", "category"})
                 /\ transformer' =
                        ColumnTransformer(TRUE, args.categorical_impute,
                                          args.numerical_impute, OHE',
                                          standard_scale', args.robust_scale)
                 /\ pc' = "fit"
                 /\ UNCHANGED <<err, errArg>>
       ELSE /\ transformer' =
                   ColumnTransformer(FALSE, args.categorical_impute,
                                     args.numerical_impute, OHE,
                                     standard_scale, args.robust_scale)
            /\ pc' = "fit"
            /\ UNCHANGED <<OHE, standard_scale, err, errArg>>
    /\ UNCHANGED <<heap, args, argTypes, X_train, X_test, column_names,
                   ohe_columns, le_i, ret>>

\* Lines 135-137.
FitTransformer ==
    /\ pc = "fit"
    /\ column_names' = heap[X_train].columns
    /\ IF FitFails(transformer, heap[X_train])
       THEN /\ Fail("FitError", "")
            /\ UNCHANGED transformer
       ELSE /\ transformer' = Fit(transformer, heap[X_train])
            /\ pc' = "names"
            /\ UNCHANGED <<err, errArg>>
    /\ UNCHANGED <<heap, args, argTypes, X_train, X_test, OHE, standard_scale,
                   ohe_columns, le_i, ret>>

\* Lines 139-147.
ReconcileNames ==
    /\ pc = "names"
    /\ ohe_columns' = IF Len(OHE) > 0 THEN GetFeatureNames(transformer, OHE)
                      ELSE <<>>
    /\ column_names' = ReconciledNames(OHE, ohe_columns', column_names)
    /\ pc' = "transform_train"
    /\ UNCHANGED <<heap, args, argTypes, X_train, X_test, OHE, standard_scale,
                   transformer, le_i, err, errArg, ret>>

\* Lines 148-149.  A sparse stack, or a stack whose width is not the number
\* of names, is refused by the DataFrame constructor.
TransformTrain ==
    /\ pc = "transform_train"
    /\ LET data == Transform(transformer, heap[X_train])
       IN  IF transformer.sparse_output \/ ~FrameShapeOK(data, column_names)
           THEN /\ Fail("ShapeMismatch", "")
                /\ UNCHANGED <<heap, X_train>>
           ELSE /\ heap' = [heap EXCEPT
                              !["out_train"] = NewFrame(data, column_names)]
                /\ X_train' = "out_train"
                /\ pc' = "transform_test"
                /\ UNCHANGED <<err, errArg>>
    /\ UNCHANGED <<args, argTypes, X_test, OHE, standard_scale, transformer,
                   column_names, ohe_columns, le_i, ret>>

\* Lines 151-153.
TestFrameRefit(t, X, names) ==
    NewFrame(Transform(Fit(t, X), X), names)
TestFrame(t, X, names) == NewFrame(Transform(t, X), names)

TransformTest ==
    /\ pc = "transform_test"
    /\ IF X_test = "None"
       THEN /\ pc' = "label"
            /\ UNCHANGED <<heap, X_test, err, errArg>>
       ELSE IF TransformFails(transformer, heap[X_test])
       THEN /\ Fail("UnknownCategory", "")
            /\ UNCHANGED <<heap, X_test>>
       ELSE IF ~FrameShapeOK(Transform(transformer, heap[X_test]),
                             column_names)
       THEN /\ Fail("ShapeMismatch", "")
            /\ UNCHANGED <<heap, X_test>>
       ELSE /\ heap' = [heap EXCEPT !["out_test"] =
                          TestFrame(transformer, heap[X_test], column_names)]
            /\ X_test' = "out_test"
            /\ pc' = "label"
            /\ UNCHANGED <<err, errArg>>
    /\ UNCHANGED <<args, argTypes, X_train, OHE, standard_scale, transformer,
                   column_names, ohe_columns, le_i, ret>>

\* Lines 156-161, one pass of the loop: column = the le_i-th key.
LabelEncodeStep ==
    /\ pc = "label"
    /\ le_i <= Len(args.label_encode)
    /\ LET column == args.label_encode[le_i].col
           le == LeFit(args.label_encode[le_i].vals)
           trainTo == LabelTarget(X_train, args.X_train)
           testTo == LabelTarget(X_test, args.X_test)
       IN  IF ~HasColumn(heap[X_train], column)
           THEN /\ Fail("KeyError", column)
                /\ UNCHANGED <<heap, le_i>>
           ELSE IF LeUnseen(le, Col(heap[X_train], column))
           THEN /\ Fail("UnseenLabel", column)
                /\ UNCHANGED <<heap, le_i>>
           ELSE LET trainCodes == LeTransform(le, Col(heap[X_train], column))
                    heap1 == [heap EXCEPT ![trainTo] =
                                SetCol(heap[trainTo], column, trainCodes)]
                IN  IF X_test = "None"
                    THEN /\ heap' = heap1
                         /\ le_i' = le_i + 1
                         /\ UNCHANGED <<pc, err, errArg>>
                    ELSE IF ~HasColumn(heap1[X_test], column)
                    THEN /\ Fail("KeyError", column)
                         /\ heap' = heap1
                         /\ UNCHANGED le_i
                    ELSE IF LeUnseen(le, Col(heap1[X_test], column))
                    THEN /\ Fail("UnseenLabel", column)
                         /\ heap' = heap1
                         /\ UNCHANGED le_i
                    ELSE /\ heap' = [heap1 EXCEPT ![testTo] =
                                       SetCol(heap1[testTo], column,
                                              LeTransform(le, Col(heap1[X_test],
                                                                  column)))]
                         /\ le_i' = le_i + 1
                         /\ UNCHANGED <<pc, err, errArg>>
    /\ UNCHANGED <<args, argTypes, X_train, X_test, OHE, standard_scale,
                   transformer, column_names, ohe_columns, ret>>

\* Line 162.
Return ==
    /\ pc = "label"
    /\ le_i > Len(args.label_encode)
    /\ ret' = <<X_train, X_test>>
    /\ pc' = "done"
    /\ UNCHANGED <<heap, args, argTypes, X_train, X_test, OHE, standard_scale,
                   transformer, column_names, ohe_columns, le_i, err, errArg>>

Next ==
    \/ CheckArgTypes
    \/ CopyTables
    \/ Configure
    \/ FitTransformer
    \/ ReconcileNames
    \/ TransformTrain
    \/ TransformTest
    \/ LabelEncodeStep
    \/ Return

(***************************************************************************)
(* The calls explored.  Every table has the columns age (numbers), city    *)
(* and grade (strings), MaxRows rows, at most one missing value per column *)
(* and none in a column that is one-hot encoded (how the encoder treats a  *)
(* missing value differs between releases of the library).  A test table   *)
(* has the columns of the training table, in the same order.               *)
(***************************************************************************)
Rows == 1..MaxRows
Cats == {Str(Alphabet[i]) : i \in 1..MaxCat}
Nums == {Num(i) : i \in 1..MaxNum}

AtMostOneNaN(col) == Cardinality({i \in DOMAIN col : IsNaN(col[i])}) <= 1

CanonAge == [i \in Rows |-> Num(i)]
CanonCity == [i \in Rows |-> Str(Alphabet[((i - 1) % MaxCat) + 1])]
CanonGrade == [i \in Rows |-> Str(Alphabet[((MaxRows - i) % MaxCat) + 1])]

ColumnOrder == <<"age", "city", "grade">>
Orders == {o \in [1..3 -> Range(ColumnOrder)] : Range(o) = Range(ColumnOrder)}

\* A table with the three columns in the given order.
MkFrame(order, ageDtype, age, city, grade) ==
    [columns |-> [i \in 1..3 |-> PlainName(order[i])],
     dtypes |-> [i \in 1..3 |-> IF order[i] = "age" THEN ageDtype ELSE "object"],
     values |-> [i \in 1..3 |-> CASE order[i] = "age" -> age
                                  [] order[i] = "city" -> city
                                  [] order[i] = "grade" -> grade]]

Canon == MkFrame(ColumnOrder, "float64", CanonAge, CanonCity, CanonGrade)
CanonNaN(order) ==
    MkFrame(order, "float64", [CanonAge EXCEPT ![2] = NaN], CanonCity,
            [CanonGrade EXCEPT ![1] = NaN])

\* The canonical table with one column replaced.
VariedCity ==
    {MkFrame(ColumnOrder, "float64", CanonAge, v, CanonGrade) :
       v \in [Rows -> Cats]}
VariedGrade ==
    {MkFrame(ColumnOrder, "float64", CanonAge, CanonCity, v) :
       v \in {w \in [Rows -> Cats \cup {NaN}] : AtMostOneNaN(w)}}
VariedAge ==
    {MkFrame(ColumnOrder, d, v, CanonCity, CanonGrade) :
       v \in {w \in [Rows -> Nums \cup {NaN}] : AtMostOneNaN(w)},
       d \in {"float64", "float32"}}

DefaultTypes ==
    [X_train |-> "DataFrame", X_test |-> "NoneType", auto |-> "bool",
     OHE |-> "list", standard_scale |-> "list", robust_scale |-> "list",
     numerical_impute |-> "list", categorical_impute |-> "list",
     label_encode |-> "dict"]

NoLists ==
    [OHE |-> <<>>, standard_scale |-> <<>>, robust_scale |-> <<>>,
     numerical_impute |-> <<>>, categorical_impute |-> <<>>]

\* One call: the types of the arguments and their values.
Call(types, train, test, auto, lists, label_encode) ==
    [types |-> [types EXCEPT !.X_test =
                  IF test # NoFrame /\ @ = "NoneType" THEN "DataFrame" ELSE @],
     train |-> train, test |-> test, auto |-> auto, lists |-> lists,
     label_encode |-> label_encode]

Perms(S) == {f \in [1..Cardinality(S) -> S] : Range(f) = S}
Label(c, vals) == [col |-> c, vals |-> vals]
WholeLists == Perms(Cats)
PartLists == Perms(Cats \ {Str(Alphabet[MaxCat])})
Descending == [i \in 1..MaxCat |-> Str(Alphabet[MaxCat + 1 - i])]
Partial == [i \in 1..(MaxCat - 1) |-> Str(Alphabet[MaxCat - i])]

\* Calls that differ in the types of the arguments.
MaxOddTypes == 2
TypeChoices ==
    {t \in [X_train : {"DataFrame", "list"},
            X_test : {"NoneType", "DataFrame", "ndarray"},
            auto : {"bool", "int"},
            OHE : {"list", "ndarray", "tuple"},
            standard_scale : {"list", "ndarray", "tuple"},
            robust_scale : {"list", "ndarray", "tuple"},
            numerical_impute : {"list", "ndarray", "tuple"},
            categorical_impute : {"list", "ndarray", "tuple"},
            label_encode : {"dict", "list"}] :
       Cardinality({i \in 1..Len(ArgKeys) :
                      t[ArgKeys[i]] # DefaultTypes[ArgKeys[i]]}) <= MaxOddTypes}
TypeInputs ==
    {Call(t, Canon, IF t.X_test = "NoneType" THEN NoFrame ELSE Canon, a, l.lists,
          l.le) :
       t \in TypeChoices, a \in BOOLEAN,
       l \in {[lists |-> NoLists, le |-> <<>>],
              [lists |-> [NoLists EXCEPT !.OHE = <<"city">>],
               le |-> <<Label("grade", Descending)>>]}}

\* Manual calls that differ in the column lists: every column is named in at
\* most two of the five lists, at most one column in two.
ListNames == {"categorical_impute", "numerical_impute", "OHE",
              "standard_scale", "robust_scale"}
Picks == {S \in SUBSET ListNames : Cardinality(S) <= 2}
Assignments ==
    {f \in [Range(ColumnOrder) -> Picks] :
       Cardinality({c \in DOMAIN f : Cardinality(f[c]) = 2}) <= 1}
Disjoint == {f \in Assignments : \A c \in DOMAIN f : Cardinality(f[c]) <= 1}
ListsOf(f, order) ==
    [l \in ListNames |->
       LET In(c) == l \in f[c]
       IN  SelectSeq(order, In)]
LayoutInputs ==
    {Call(DefaultTypes, MkFrame(o, "float64", CanonAge, CanonCity, CanonGrade),
          NoFrame, FALSE, ListsOf(f, o), <<>>) :
       o \in Orders, f \in Assignments}
    \cup
    {Call(DefaultTypes, CanonNaN(o), NoFrame, FALSE, ListsOf(f, o), <<>>) :
       o \in Orders,
       f \in {g \in Disjoint : "OHE" \notin g["age"] \cup g["grade"]}}
    \cup
    {Call(DefaultTypes, Canon, NoFrame, TRUE, ListsOf(f, ColumnOrder), le) :
       f \in Disjoint, le \in {<<>>, <<Label("grade", Descending)>>}}

\* Calls that differ in the values of the tables.
NoNaNIn(X, c) == X = NoFrame \/ \A v \in Range(Col(X, c)) : ~IsNaN(v)
DataLists ==
    {[NoLists EXCEPT !.OHE = <<"city">>],
     [NoLists EXCEPT !.OHE = <<"city", "grade">>,
                     !.standard_scale = <<"age">>],
     [NoLists EXCEPT !.OHE = <<"city">>, !.robust_scale = <<"age">>,
                     !.categorical_impute = <<"grade">>],
     [NoLists EXCEPT !.numerical_impute = <<"age">>,
                     !.categorical_impute = <<"grade">>]}
DataInputs ==
    {c \in {Call(DefaultTypes, train, test, FALSE, lists, <<>>) :
              train \in VariedCity \cup VariedGrade \cup VariedAge,
              test \in {NoFrame, Canon}, lists \in DataLists} :
       "grade" \in Range(c.lists.OHE) => NoNaNIn(c.train, "grade")}
    \cup
    {c \in {Call(DefaultTypes, train, test, TRUE, NoLists, <<>>) :
              train \in VariedCity \cup VariedGrade \cup VariedAge,
              test \in {NoFrame, Canon}} :
       NoNaNIn(c.train, "grade")}
    \cup
    {c \in {Call(DefaultTypes, train, train, auto, lists, <<>>) :
              train \in VariedCity \cup VariedGrade \cup VariedAge,
              auto \in BOOLEAN, lists \in DataLists \cup {NoLists}} :
       /\ c.auto <=> c.lists = NoLists
       /\ c.auto \/ "grade" \in Range(c.lists.OHE) => NoNaNIn(c.train, "grade")}

\* Manual calls that differ in label_encode.
LabelMaps ==
    {<<Label(c, l)>> : c \in {"grade", "city"}, l \in WholeLists \cup PartLists}
    \cup {<<Label(k[1], l), Label(k[2], m)>> :
            k \in {<<"grade", "city">>, <<"city", "grade">>},
            l \in {Descending, Partial}, m \in {Descending, Partial}}
LabelInputs ==
    {Call(DefaultTypes, Canon, test, FALSE, lists, le) :
       test \in {NoFrame, Canon, CanonNaN(ColumnOrder)},
       lists \in {NoLists, [NoLists EXCEPT !.OHE = <<"city">>]},
       le \in LabelMaps}
    \cup
    {Call(DefaultTypes, t[1], t[2], FALSE, NoLists, le) :
       t \in ((VariedCity \cup VariedGrade) \X {NoFrame, Canon})
                \cup ({Canon} \X VariedGrade),
       le \in {<<Label("grade", Descending)>>, <<Label("city", Partial)>>,
               <<Label("city", Descending), Label("grade", Partial)>>}}

Inputs == TypeInputs \cup LayoutInputs \cup DataInputs \cup LabelInputs

InitFrom(inp) ==
    /\ heap = [id \in FrameIds |->
                 CASE id = "caller_train" -> inp.train
                   [] id = "caller_test" -> inp.test
                   [] OTHER -> NoFrame]
    /\ argTypes = inp.types
    /\ args = [X_train |-> "caller_train",
               X_test |-> IF inp.types.X_test = "NoneType" THEN "None"
                          ELSE "caller_test",
               auto |-> inp.auto,
               OHE |-> inp.lists.OHE,
               standard_scale |-> inp.lists.standard_scale,
               robust_scale |-> inp.lists.robust_scale,
               numerical_impute |-> inp.lists.numerical_impute,
               categorical_impute |-> inp.lists.categorical_impute,
               label_encode |-> inp.label_encode]
    /\ X_train = "caller_train"
    /\ X_test = IF inp.types.X_test = "NoneType" THEN "None" ELSE "caller_test"
    /\ OHE = inp.lists.OHE
    /\ standard_scale = inp.lists.standard_scale
    /\ transformer = NoTransformer
    /\ column_names = <<>>
    /\ ohe_columns = <<>>
    /\ le_i = 1
    /\ pc = "check_types"
    /\ err = ""
    /\ errArg = ""
    /\ ret = <<>>

Init == \E inp \in Inputs : InitFrom(inp)

Spec == Init /\ [][Next]_vars

(***************************************************************************)
(* Properties.                                                             *)
(***************************************************************************)
Returned == pc = "done"
InTrain == heap["caller_train"]
InTest == heap["caller_test"]
OutTrain == heap[ret[1]]
OutTest == heap[ret[2]]
InputNames == [i \in 1..Len(InTrain.columns) |-> InTrain.columns[i].col]
LabelKeys == {args.label_encode[i].col : i \in 1..Len(args.label_encode)}
PassedLists ==
    <<args.categorical_impute, args.numerical_impute, args.OHE,
      args.standard_scale, args.robust_scale>>
ManualGiven ==
    \/ \E i \in 1..5 : PassedLists[i] # <<>>
    \/ args.label_encode # <<>>
DeclaredOrder ==
    <<"X_train", "X_test", "auto", "OHE", "standard_scale", "robust_scale",
      "numerical_impute", "categorical_impute", "label_encode">>
IllTyped ==
    {i \in 1..Len(DeclaredOrder) :
       argTypes[DeclaredOrder[i]] \notin arg_types[DeclaredOrder[i]]}
\* Some column is named in two of the five lists.
Overlapping ==
    \E i \in 1..5 : \E j \in (i + 1)..5 :
        Range(PassedLists[i]) \cap Range(PassedLists[j]) # {}
\* How many labels of a frame are indicator columns of source column c.
Indicators(X, c) ==
    {j \in 1..Len(X.columns) : X.columns[j].col = c /\ X.columns[j].cat # NoCat}
\* What the group of column c makes of that column of the training table.
DerivedFrom(c) ==
    LET col == Col(InTrain, c)
    IN  CASE c \in Range(transformer.cat_imputer) -> CatImpute(col)
          [] c \in Range(transformer.num_imputer) ->
                 NumImpute(Median2(col), col)
          [] c \in Range(transformer.standard_scalar) ->
                 StdScale(StdFit(col), col)
          [] c \in Range(transformer.robust_scalar) ->
                 RobustScale(RobustFit(col), col)
          [] OTHER -> col
\* The training table as transformed and named, before the label pass.
BeforeLabels(X) == NewFrame(Transform(transformer, X), column_names)

\* C1: in a returned training table the columns are the indicator columns
\* followed by the input columns that are not one-hot encoded, in their
\* original order, and each of these names labels the values derived from
\* the input column of that name (label-encoded columns aside).
C1_NamesLabelTheirColumn ==
    Returned =>
        LET Kept(c) == c \notin Range(OHE)
            rest == SelectSeq(InputNames, Kept)
        IN  /\ OutTrain.columns =
                  ohe_columns \o [i \in 1..Len(rest) |-> PlainName(rest[i])]
            /\ \A c \in Range(rest) \ LabelKeys :
                   Col(OutTrain, c) = DerivedFrom(c)

\* C2: the code written for a value of a label-encoded column is the
\* zero-based position of that value in the caller's list for the column.
C2_CodeIsListPosition ==
    Returned =>
        \A i \in 1..Len(args.label_encode) :
            LET e == args.label_encode[i]
                before == Col(BeforeLabels(heap["copy_train"]), e.col)
            IN  \A r \in 1..Len(before) :
                    Col(OutTrain, e.col)[r] = Num(IndexOf(e.vals, before[r]) - 1)

\* C3: a well-typed call with auto and any manual list or label mapping
\* given ends with ConfigConflict, with no transformer built or fitted and
\* no table returned.
C3_AutoRejectsManual ==
    (args.auto /\ IllTyped = {} /\ ManualGiven) =>
        /\ transformer.state = "none"
        /\ heap["out_train"] = NoFrame /\ heap["out_test"] = NoFrame
        /\ ret = <<>>
        /\ pc \in {"check_types", "copy", "configure", "failed"}
        /\ pc = "failed" => err = "ConfigConflict"
C3_Witness ==
    /\ pc = "failed" /\ err = "ConfigConflict"
    /\ \A i \in 1..5 : PassedLists[i] = <<>>
    /\ args.label_encode # <<>>

\* C4: an ill-typed call ends with TypeMismatch naming the first offending
\* argument in declaration order, before the tables are copied, before the
\* auto conflict check and before any fit or transform.
C4_TypeMismatchFirst ==
    IllTyped # {} =>
        /\ pc \in {"check_types", "failed"}
        /\ \A id \in FrameIds \ {"caller_train", "caller_test"} :
               heap[id] = NoFrame
        /\ transformer.state = "none"
        /\ ret = <<>>
        /\ pc = "failed" =>
               /\ err = "TypeMismatch"
               /\ errArg = DeclaredOrder[CHOOSE i \in IllTyped :
                                           \A j \in IllTyped : i <= j]
C4_Witness ==
    /\ pc = "failed" /\ err = "TypeMismatch"
    /\ Cardinality(IllTyped) >= 2
    /\ args.auto /\ ManualGiven

\* C5: no step of a call, failing or not, changes the caller's two tables.
C5_CallerTablesUntouched ==
    [][/\ heap'["caller_train"] = heap["caller_train"]
       /\ heap'["caller_test"] = heap["caller_test"]]_vars
C5_Witness ==
    /\ pc = "failed" /\ err = "UnseenLabel" /\ le_i = 2
    /\ X_test = "out_test"
    /\ heap["out_train"] # BeforeLabels(heap["copy_train"])

\* C6: every input column is represented in a returned table: under its own
\* name when it is not one-hot encoded, by at least one indicator column
\* when it is.
C6_EveryColumnRepresented ==
    Returned =>
        \A c \in Range(InputNames) :
            IF c \in Range(OHE) THEN Indicators(OutTrain, c) # {}
            ELSE PlainName(c) \in Range(OutTrain.columns)

\* C7: a returned test table carries the names of the returned training
\* table and the values the transformer fitted on the training table makes
\* of the test table, label-encoded where asked; identical inputs give
\* identical outputs.
C7_TestUsesTrainFit ==
    (Returned /\ ret[2] # "None") =>
        LET before == BeforeLabels(InTest)
            Encoded(j) ==
                LET e == CHOOSE x \in Range(args.label_encode) :
                             PlainName(x.col) = before.columns[j]
                IN  LeTransform(LeFit(e.vals), before.values[j])
        IN  /\ OutTest.columns = OutTrain.columns
            /\ Len(OutTest.values) = Len(before.values)
            /\ \A j \in 1..Len(before.values) :
                   OutTest.values[j] =
                       IF before.columns[j].cat = NoCat
                          /\ before.columns[j].col \in LabelKeys
                       THEN Encoded(j) ELSE before.values[j]
            /\ InTest = InTrain => OutTest = OutTrain
C7_Witness ==
    /\ Returned /\ ret[2] # "None"
    /\ InTest = InTrain
    /\ args.label_encode # <<>>
    /\ transformer.one_hot # <<>>

\* C8: a one-hot encoded column with k distinct training categories gets
\* k - 1 indicator columns in automatic mode, named after the categories
\* other than the first, and k indicator columns in manual mode, one per
\* category.
C8_IndicatorCount ==
    Returned =>
        \A c \in Range(OHE) :
            LET cats == Range(Col(InTrain, c))
                first == CHOOSE v \in cats : \A w \in cats : Key(v) <= Key(w)
                kept == IF args.auto THEN cats \ {first} ELSE cats
                ind == Indicators(OutTrain, c)
            IN  /\ Cardinality(ind) = Cardinality(kept)
                /\ {OutTrain.columns[j].cat : j \in ind} = kept
C8_Witness ==
    /\ Returned /\ args.auto
    /\ Cardinality(Range(Col(InTrain, "city"))) = MaxCat
    /\ Cardinality(Indicators(OutTrain, "city")) = MaxCat - 1

\* C9: a pass of the label loop raises UnseenLabel exactly when the named
\* column of the transformed training table, or of the transformed test
\* table when there is one, holds a value that is not in the caller's list;
\* a call that raised returns nothing.
C9_UnseenLabelExactly ==
    [][/\ (pc = "label" /\ le_i <= Len(args.label_encode)) =>
              LET e == args.label_encode[le_i]
                  Unseen(X) ==
                      /\ HasColumn(X, e.col)
                      /\ \E v \in Range(Col(X, e.col)) : v \notin Range(e.vals)
              IN  (err' = "UnseenLabel") <=>
                      \/ Unseen(heap[X_train])
                      \/ /\ HasColumn(heap[X_train], e.col)
                         /\ X_test # "None"
                         /\ Unseen(heap[X_test])
       /\ err' # "" => (pc' = "failed" /\ ret' = <<>>)
       /\ pc = "failed" => (pc' = "failed" /\ ret' = <<>>)]_vars
C9_Witness ==
    /\ pc = "failed" /\ err = "UnseenLabel" /\ le_i = 2
    /\ X_test = "out_test"
    /\ Dtype(heap[X_train], errArg) = "int64"
    /\ Dtype(heap[X_test], errArg) # "int64"

\* C10: a returned table has one name per data column, as many as there are
\* indicator columns plus input columns outside OHE; a manual call that
\* names a column in two of the five lists returns nothing.
C10_OneNamePerColumn ==
    /\ Returned =>
           \A id \in Range(ret) \ {"None"} :
               LET Kept(c) == c \notin Range(OHE)
                   width == Len(ohe_columns) + Len(SelectSeq(InputNames, Kept))
               IN  /\ Len(heap[id].columns) = width
                   /\ Len(heap[id].values) = width
    /\ (~args.auto /\ Overlapping) => (~Returned /\ ret = <<>>)
C10_Witness ==
    /\ pc = "failed" /\ err = "ShapeMismatch"
    /\ ~args.auto /\ Overlapping

=============================================================================
